---- MODULE Spec2Model ----
(***************************************************************************)
(* Model of the tile-grid subdivision controller of earth2.                *)
(*                                                                         *)
(*   src/src/tileGrid.ts   grid and quadrant mathematics                    *)
(*   src/src/geoUtils.ts   lines 267-576: the entry point with              *)
(*                         removeOrSplitTileAt and follow mode              *)
(*                                                                         *)
(* Coordinates are fixed-point degrees: one degree is DEG units, so that   *)
(* every value the code computes at this grid (cell edges, midpoints down  *)
(* to SPLIT_DEPTH, margins) is an integer and stays below 2^31.  A margin  *)
(* fraction is the exact rational [num, den].  An identifier is the string *)
(* the code builds, as a sequence of one-character strings.                *)
(***************************************************************************)
EXTENDS Integers, Sequences, FiniteSets, TLC

\* ------------------------------------------------------------------ bounds
\* number of removeOrSplitTileAt calls explored
MaxCalls == 3

\* --------------------------------------------------------------- constants
\* fixed-point units per degree: 2^15 * 200 / 10
DEG == 655360
\* const gridConfig = { latCount: 18, lonCount: 36 }
LAT_COUNT == 18
LON_COUNT == 36
gridConfig == [latCount |-> LAT_COUNT, lonCount |-> LON_COUNT]
\* const TILE_GAP = 0.03
TILE_GAP == [num |-> 3, den |-> 100]
\* the floor 0.01 of gapForDepth
MIN_GAP == [num |-> 1, den |-> 100]
\* const SPLIT_DEPTH = 15
SPLIT_DEPTH == 15

RECURSIVE Pow2(_)
Pow2(n) == IF n = 0 THEN 1 ELSE 2 * Pow2(n - 1)

Max(a, b) == IF a >= b THEN a ELSE b
Min(a, b) == IF a <= b THEN a ELSE b

\* ------------------------------------------------------------ tileGrid.ts
DigitChars == <<"0", "1", "2", "3", "4", "5", "6", "7", "8", "9">>

\* decimal rendering of a non-negative integer, as `${n}` prints it
RECURSIVE NumToString(_)
NumToString(n) ==
  IF n < 10 THEN <<DigitChars[n + 1]>>
  ELSE NumToString(n \div 10) \o <<DigitChars[(n % 10) + 1]>>

\* tileIdToString without the underscore between row and col
tileIdToString_NoSeparator(tile) ==
  <<"t", "i", "l", "e", "_">> \o NumToString(tile.row) \o NumToString(tile.col)

\* `tile_${tile.row}_${tile.col}`
tileIdToString(tile) ==
  <<"t", "i", "l", "e", "_">> \o NumToString(tile.row) \o <<"_">>
     \o NumToString(tile.col)

\* lat/lon steps of a config, in units
latStepOf(config) == (180 * DEG) \div config.latCount
lonStepOf(config) == (360 * DEG) \div config.lonCount

\* tileBounds(row, col, config, gapFraction); gapFraction = [num, den]
tileBounds(row, col, config, gapFraction) ==
  LET latStep == latStepOf(config)
      lonStep == lonStepOf(config)
      south == -90 * DEG + row * latStep
      north == south + latStep
      west == -180 * DEG + col * lonStep
      east == west + lonStep
      marginLon == (lonStep * gapFraction.num) \div gapFraction.den
      marginLat == (latStep * gapFraction.num) \div gapFraction.den
  IN IF gapFraction.num > 0
       THEN [west |-> west + marginLon \div 2, south |-> south + marginLat \div 2,
             east |-> east - marginLon \div 2, north |-> north - marginLat \div 2]
       ELSE [west |-> west, south |-> south, east |-> east, north |-> north]

\* insetBounds with the margin added outwards instead of inwards
insetBounds_Outwards(bounds, gapFraction) ==
  LET w == bounds.east - bounds.west
      h == bounds.north - bounds.south
      marginLon == (w * gapFraction.num) \div (gapFraction.den * 2)
      marginLat == (h * gapFraction.num) \div (gapFraction.den * 2)
  IN [west |-> bounds.west - marginLon, south |-> bounds.south - marginLat,
      east |-> bounds.east + marginLon, north |-> bounds.north + marginLat]

\* insetBounds(bounds, gapFraction): margin = size * (gapFraction / 2)
insetBounds(bounds, gapFraction) ==
  LET w == bounds.east - bounds.west
      h == bounds.north - bounds.south
      marginLon == (w * gapFraction.num) \div (gapFraction.den * 2)
      marginLat == (h * gapFraction.num) \div (gapFraction.den * 2)
  IN [west |-> bounds.west + marginLon, south |-> bounds.south + marginLat,
      east |-> bounds.east - marginLon, north |-> bounds.north - marginLat]

\* quadrantBounds(bounds, quadrant): 0=SW, 1=SE, 2=NW, 3=NE
quadrantBounds(bounds, quadrant) ==
  LET midLon == (bounds.west + bounds.east) \div 2
      midLat == (bounds.south + bounds.north) \div 2
  IN CASE quadrant = 0 ->
            [west |-> bounds.west, south |-> bounds.south, east |-> midLon, north |-> midLat]
       [] quadrant = 1 ->
            [west |-> midLon, south |-> bounds.south, east |-> bounds.east, north |-> midLat]
       [] quadrant = 2 ->
            [west |-> bounds.west, south |-> midLat, east |-> midLon, north |-> bounds.north]
       [] quadrant = 3 ->
            [west |-> midLon, south |-> midLat, east |-> bounds.east, north |-> bounds.north]

\* quadrantAt that sends a point on a midline to the south / west quadrant
quadrantAt_Strict(lat, lon, bounds) ==
  LET midLon == (bounds.west + bounds.east) \div 2
      midLat == (bounds.south + bounds.north) \div 2
      north == IF lat > midLat THEN 1 ELSE 0
      east == IF lon > midLon THEN 1 ELSE 0
  IN 2 * north + east

\* quadrantAt(lat, lon, bounds) = (north << 1) | east
quadrantAt(lat, lon, bounds) ==
  LET midLon == (bounds.west + bounds.east) \div 2
      midLat == (bounds.south + bounds.north) \div 2
      north == IF lat >= midLat THEN 1 ELSE 0
      east == IF lon >= midLon THEN 1 ELSE 0
  IN 2 * north + east

\* latLonToTile(lat, lon, config)
latLonToTile(lat, lon, config) ==
  LET row == Min((lat + 90 * DEG) \div latStepOf(config), config.latCount - 1)
      col == Min((lon + 180 * DEG) \div lonStepOf(config), config.lonCount - 1)
  IN [row |-> Max(0, row), col |-> Max(0, col)]

\* ------------------------------------------------------------ geoUtils.ts
\* a margin that does not shrink with depth
gapForDepth_Flat(depth) == TILE_GAP

\* a margin that keeps halving below the floor
gapForDepth_NoFloor(depth) ==
  [num |-> TILE_GAP.num, den |-> TILE_GAP.den * Pow2(depth)]

\* gapForDepth(depth) = Math.max(0.01, TILE_GAP * Math.pow(0.5, depth))
gapForDepth(depth) ==
  LET g == [num |-> TILE_GAP.num, den |-> TILE_GAP.den * Pow2(depth)]
  IN IF MIN_GAP.num * g.den >= g.num * MIN_GAP.den THEN MIN_GAP ELSE g

\* path.join("_")
RECURSIVE JoinPath(_)
JoinPath(path) ==
  IF Len(path) = 0 THEN <<>>
  ELSE IF Len(path) = 1 THEN NumToString(path[1])
  ELSE NumToString(path[1]) \o <<"_">> \o JoinPath(Tail(path))

\* String.prototype.startsWith
StartsWith(s, prefix) ==
  /\ Len(s) >= Len(prefix)
  /\ SubSeq(s, 1, Len(prefix)) = prefix

VARIABLES
  registry,   \* viewer.entities: the set of (shown) entities
  threw,      \* some call ended in the fault of viewer.entities.add
  hist,       \* the calls made so far, one record per call
  regBefore,  \* the registry as it was before the last call
  lastPick,   \* what the last LEFT_CLICK picked: "none" before any click
  followLocation,        \* let followLocation
  followFlyInProgress,   \* let followFlyInProgress
  followWatchId,         \* let followWatchId, NoWatch for null
  followTarget,          \* followTargetLat/Lon, NoTarget for null
  lastFollowRemoveTime,  \* let lastFollowRemoveTime
  listeners,  \* how many times onFollowTick is registered on preRender
  watches,    \* the watch ids navigator.geolocation still serves
  pendingPos, \* getCurrentPosition requests not answered yet
  flight,     \* the camera flight under way, NoFlight for none
  camera,     \* the point under the camera
  now,        \* performance.now()
  followLog,  \* the calls of removeOrSplitTileAt made by follow mode
  stopped,    \* stopFollowing ran and startFollowing has not run since
  starts,     \* how many times startFollowing ran
  probe       \* the last application of a function of tileGrid.ts

regVars == <<registry, threw, hist, regBefore>>
followVars == <<followLocation, followFlyInProgress, followWatchId,
                followTarget, lastFollowRemoveTime, listeners, watches,
                pendingPos, flight, camera, now, followLog, stopped, starts>>
vars == <<regVars, lastPick, followVars, probe>>

\* An entity is [id, b]: its id string and the rectangle it was created with.
\* the ids of a collection
Ids(reg) == {e.id : e \in reg}

\* The collection during a call is the record st:
\*   st.reg      the entities that were there when the call began
\*   st.ids      the ids among them that are still in the collection
\*   st.removed  the ids the call has removed
\*   st.fresh    the entities the call has added so far, in order
\*   st.threw    the call has ended in the fault of viewer.entities.add
\* and st.kind, st.target, st.depth record which branch the call took.

\* a lookup that takes every id for a shown entity
Shown_Always(st, id) == TRUE

\* viewer.entities.getById(id)?.show: every entity is created with show: true
\* and the flag is never written afterwards
Shown(st, id) ==
  \/ id \in st.ids
  \/ \E i \in 1..Len(st.fresh) : st.fresh[i].id = id

\* a removal that leaves the entities in the collection
RemoveAll_Keeps(st, gone) == st

\* viewer.entities.remove(e) for every entity with an id of a set
RemoveAll(st, gone) ==
  [st EXCEPT !.ids = st.ids \ gone, !.removed = st.removed \cup gone]

\* EntityCollection.add looks the id up in the collection
HasEntity(st, id) ==
  \/ id \in st.ids
  \/ \E i \in 1..Len(st.fresh) : st.fresh[i].id = id

\* addTileEntity(id, west, south, east, north): viewer.entities.add faults on
\* an id that is already in the collection, and the fault leaves the handler
addTileEntity(st, id, b) ==
  IF st.threw THEN st
  ELSE IF HasEntity(st, id) THEN [st EXCEPT !.threw = TRUE]
  ELSE [st EXCEPT !.fresh = Append(st.fresh, [id |-> id, b |-> b])]

\* the collection when the call returns
Entities(st) ==
  {e \in st.reg : e.id \notin st.removed}
     \cup {st.fresh[i] : i \in 1..Len(st.fresh)}

\* the ids a call has added, in order
AddedIds(st) == [i \in 1..Len(st.fresh) |-> st.fresh[i].id]

\* the south-west quadrant is skipped, whichever holds the point
SkipQuadrant_SouthWest(q, holeQ) == q = 0

\* no quadrant is skipped: the hole quadrant gets an entity too
SkipQuadrant_Never(q, holeQ) == FALSE

\* `if (q === holeQ) continue;`
SkipQuadrant(q, holeQ) == q = holeQ

\* a push that is lost
PushPath_Lost(path, q) == path

\* path.push(holeQ)
PushPath(path, q) == Append(path, q)

\* path.length ? `${baseId}_${path.join("_")}_${q}` : `${baseId}_${q}`
ChildId(baseId, path, q) ==
  IF Len(path) > 0
    THEN baseId \o <<"_">> \o JoinPath(path) \o <<"_">> \o NumToString(q)
    ELSE baseId \o <<"_">> \o NumToString(q)

\* `${baseId}_${path.join("_")}`
PathId(baseId, path) == baseId \o <<"_">> \o JoinPath(path)

\* one pass of the body of `for (q = 0; q < 4; q++)`
AddQuadrant(st, baseId, bounds, path, holeQ, depth, q) ==
  IF SkipQuadrant(q, holeQ) THEN st
  ELSE LET b == insetBounds(quadrantBounds(bounds, q), gapForDepth(depth))
           id == ChildId(baseId, path, q)
       IN addTileEntity(st, id, b)

\* the inner loop `for (q = 0; q < 4; q++)` of both split loops, unrolled
AddSiblings(st, baseId, bounds, path, holeQ, depth) ==
  LET s0 == AddQuadrant(st, baseId, bounds, path, holeQ, depth, 0)
      s1 == AddQuadrant(s0, baseId, bounds, path, holeQ, depth, 1)
      s2 == AddQuadrant(s1, baseId, bounds, path, holeQ, depth, 2)
  IN AddQuadrant(s2, baseId, bounds, path, holeQ, depth, 3)

\* first split: `for (level = 0; level < SPLIT_DEPTH; level++)`
RECURSIVE FirstSplitLoop(_, _, _, _, _, _, _)
FirstSplitLoop(st, baseId, lat, lon, bounds, path, level) ==
  IF st.threw \/ level >= SPLIT_DEPTH THEN st
  ELSE LET holeQ == quadrantAt(lat, lon, bounds)
           st1 == AddSiblings(st, baseId, bounds, path, holeQ, level)
       IN FirstSplitLoop(st1, baseId, lat, lon, quadrantBounds(bounds, holeQ),
                         PushPath(path, holeQ), level + 1)

\* no remaining depth: a re-split adds nothing
RemainingDepth_None(currentDepth) == 0

\* a remaining depth that is one level short
RemainingDepth_Short(currentDepth) == SPLIT_DEPTH - currentDepth - 1

\* a remaining depth that is one level long
RemainingDepth_Long(currentDepth) == SPLIT_DEPTH - currentDepth + 1

\* const remainingDepth = SPLIT_DEPTH - currentDepth
RemainingDepth(currentDepth) == SPLIT_DEPTH - currentDepth

\* the depth of the entities being added instead of that of their parent
DepthOf_Child(currentDepth, d) == currentDepth + d + 1

\* const depth = currentDepth + d
DepthOf(currentDepth, d) == currentDepth + d

\* re-split: `for (d = 0; d < remainingDepth; d++)`
RECURSIVE ReSplitLoop(_, _, _, _, _, _, _, _)
ReSplitLoop(st, baseId, lat, lon, bounds, path, currentDepth, d) ==
  IF st.threw \/ d >= RemainingDepth(currentDepth) THEN st
  ELSE LET holeQ == quadrantAt(lat, lon, bounds)
           depth == DepthOf(currentDepth, d)
           st1 == AddSiblings(st, baseId, bounds, path, holeQ, depth)
       IN ReSplitLoop(st1, baseId, lat, lon, quadrantBounds(bounds, holeQ),
                      PushPath(path, holeQ), currentDepth, d + 1)

\* const prefix = `${id}_`
SubtreePrefix(id) == id \o <<"_">>

\* the entity found by the walk and every entity whose id starts as the id of
\* its parent does: tile_1_2_3 takes tile_1_20 and its sub-tiles along
SubtreeIds_ParentPrefix(st, id) ==
  {id} \cup {e \in st.ids : StartsWith(e, SubSeq(id, 1, Len(id) - 2))}

\* the entity found by the walk and every entity whose id starts with prefix
SubtreeIds(st, id) ==
  {id} \cup {e \in st.ids : StartsWith(e, SubtreePrefix(id))}

\* a walk that, finding no shown entity, puts the tile back in place of its
\* sub-tiles (a second click that deselects)
RECURSIVE WalkLoop_Unsplits(_, _, _, _, _, _, _)
WalkLoop_Unsplits(st, baseId, lat, lon, bounds, path, level) ==
  IF level >= SPLIT_DEPTH
    THEN LET tile == latLonToTile(lat, lon, gridConfig)
             st1 == RemoveAll(st, {e \in st.ids : StartsWith(e, SubtreePrefix(baseId))})
         IN [addTileEntity(st1, baseId,
                           tileBounds(tile.row, tile.col, gridConfig, TILE_GAP))
               EXCEPT !.kind = "hole"]
  ELSE LET q == quadrantAt(lat, lon, bounds)
           path1 == PushPath(path, q)
           id == PathId(baseId, path1)
       IN IF Shown(st, id)
            THEN LET currentDepth == Len(path1)
                     tileBnds == quadrantBounds(bounds, q)
                     st1 == [RemoveAll(st, SubtreeIds(st, id))
                               EXCEPT !.kind = "sub", !.target = id,
                                      !.depth = currentDepth]
                 IN ReSplitLoop(st1, baseId, lat, lon, tileBnds, path1,
                                currentDepth, 0)
            ELSE WalkLoop_Unsplits(st, baseId, lat, lon,
                                   quadrantBounds(bounds, q), path1, level + 1)

\* already split: `for (level = 0; level < SPLIT_DEPTH; level++)` looking for
\* the shown entity on the point's quadrant path
RECURSIVE WalkLoop(_, _, _, _, _, _, _)
WalkLoop(st, baseId, lat, lon, bounds, path, level) ==
  IF level >= SPLIT_DEPTH
    THEN [st EXCEPT !.kind = "hole"]
  ELSE LET q == quadrantAt(lat, lon, bounds)
           path1 == PushPath(path, q)
           id == PathId(baseId, path1)
       IN IF Shown(st, id)
            THEN LET currentDepth == Len(path1)
                     tileBnds == quadrantBounds(bounds, q)
                     st1 == [RemoveAll(st, SubtreeIds(st, id))
                               EXCEPT !.kind = "sub", !.target = id,
                                      !.depth = currentDepth]
                 IN ReSplitLoop(st1, baseId, lat, lon, tileBnds, path1,
                                currentDepth, 0)
            ELSE WalkLoop(st, baseId, lat, lon, quadrantBounds(bounds, q),
                          path1, level + 1)

\* removeOrSplitTileAt(lat, lon), from a registry to the outcome of the call
removeOrSplitTileAt(reg, lat, lon) ==
  LET tile == latLonToTile(lat, lon, gridConfig)
      baseId == tileIdToString(tile)
      baseBoundsFull == tileBounds(tile.row, tile.col, gridConfig, [num |-> 0, den |-> 1])
      st0 == [reg |-> reg, ids |-> Ids(reg), threw |-> FALSE, fresh |-> <<>>,
              removed |-> {}, kind |-> "none", target |-> <<>>, depth |-> 0]
  IN IF Shown(st0, baseId)
       THEN LET st1 == [RemoveAll(st0, {baseId})
                          EXCEPT !.kind = "base", !.target = baseId]
            IN FirstSplitLoop(st1, baseId, lat, lon, baseBoundsFull, <<>>, 0)
       ELSE WalkLoop(st0, baseId, lat, lon, baseBoundsFull, <<>>, 0)

\* the grid loop at startup: one entity per (row, col), inset by TILE_GAP
InitialRegistry ==
  {[id |-> tileIdToString([row |-> r, col |-> c]),
    b |-> tileBounds(r, c, gridConfig, TILE_GAP)] :
      r \in 0..(gridConfig.latCount - 1), c \in 0..(gridConfig.lonCount - 1)}

\* the identifiers the grid loop registers under a config
GridLoopIds(config) ==
  {tileIdToString([row |-> r, col |-> c]) :
      r \in 0..(config.latCount - 1), c \in 0..(config.lonCount - 1)}

\* ---------------------------------------------------------------- inputs
TileSize == latStepOf(gridConfig)
\* edge of a cell with a quadrant path of length n
Cell(n) == TileSize \div Pow2(n)
\* the point at offset (dx, dy) from the south-west corner of tile (row, col)
Pt(row, col, dx, dy) ==
  [lat |-> -90 * DEG + row * TileSize + dy,
   lon |-> -180 * DEG + col * TileSize + dx]

Points ==
  { Pt(1, 2, 100, 100),                        \* deepest south-west cell
    Pt(1, 2, 150, 50),                         \* the same deepest cell
    Pt(1, 2, Cell(SPLIT_DEPTH) + 100, 100),    \* its sibling at full depth
    Pt(1, 2, Cell(8) + 100, 100),              \* a sibling at depth 8
    Pt(1, 2, Cell(1) + 7, 100),                \* depth 1, inside the margin
    Pt(1, 2, 3 * Cell(2), 3 * Cell(2)),        \* on both midlines of NE
    Pt(1, 20, 100, 100),                       \* another tile
    [lat |-> 90 * DEG, lon |-> 180 * DEG] }    \* the north-east corner

\* ------------------------------------------------------------ state machine
\* an optional point: followTargetLat/Lon == null, or no flight under way
NoPoint == [set |-> FALSE, lat |-> 0, lon |-> 0]
SomePoint(p) == [set |-> TRUE, lat |-> p.lat, lon |-> p.lon]
\* followWatchId == null
NoWatch == 0
\* no function of tileGrid.ts applied yet
NoProbe == [op |-> "none"]

\* every variable of the viewer when viewer.entities holds reg and nothing
\* has been clicked or followed yet
ViewerInit(reg) ==
  /\ registry = reg
  /\ threw = FALSE
  /\ hist = <<>>
  /\ regBefore = reg
  /\ lastPick = "none"
  /\ followLocation = FALSE
  /\ followFlyInProgress = FALSE
  /\ followWatchId = NoWatch
  /\ followTarget = NoPoint
  /\ lastFollowRemoveTime = 0
  /\ listeners = 0
  /\ watches = {}
  /\ pendingPos = 0
  /\ flight = NoPoint
  /\ camera = [lat |-> 0, lon |-> 0]
  /\ now = 0
  /\ followLog = <<>>
  /\ stopped = FALSE
  /\ starts = 0

\* the state after construction: the grid loop has filled viewer.entities
Init ==
  /\ ViewerInit(InitialRegistry)
  /\ probe = NoProbe

\* one call removeOrSplitTileAt(p.lat, p.lon), from the click handler, the
\* follow tick or the end of a flight
Call(p) ==
  /\ Len(hist) < MaxCalls
  /\ LET r == removeOrSplitTileAt(registry, p.lat, p.lon)
     IN /\ registry' = Entities(r)
        /\ threw' = (threw \/ r.threw)
        /\ hist' = Append(hist, [lat |-> p.lat, lon |-> p.lon, kind |-> r.kind,
                                  target |-> r.target, depth |-> r.depth,
                                  removed |-> r.removed, added |-> AddedIds(r),
                                  threw |-> r.threw])
        /\ regBefore' = registry

\* What a click picks: pick.ray is whether camera.getPickRay gave a ray,
\* pick.globe whether globe.pick gave a position on the globe, pick.p the point
\* of the globe under the cursor.
Picks ==
  {[ray |-> TRUE, globe |-> TRUE, p |-> p] : p \in Points}
    \cup {[ray |-> FALSE, globe |-> FALSE, p |-> Pt(1, 2, 100, 100)],
          [ray |-> TRUE, globe |-> FALSE, p |-> Pt(1, 2, 100, 100)]}

PickName(pick) ==
  IF ~pick.ray THEN "noRay" ELSE IF ~pick.globe THEN "noGlobe" ELSE "hit"

\* if (!ray) return;
HasRay(pick) == pick.ray

HasGlobePosition_Always(pick) == TRUE
\* if (!globePosition) return;
HasGlobePosition(pick) == pick.globe

\* the LEFT_CLICK handler; clicks are explored while the call budget lasts
Click(pick) ==
  /\ Len(hist) < MaxCalls
  /\ lastPick' = PickName(pick)
  /\ IF ~HasRay(pick) THEN UNCHANGED regVars
     ELSE IF ~HasGlobePosition(pick) THEN UNCHANGED regVars
     ELSE Call(pick.p)
  /\ UNCHANGED <<followVars, probe>>

Next == \E pick \in Picks : Click(pick)

Spec == Init /\ [][Next]_vars

\* ------------------------------------------------------------ follow mode
FOLLOW_LERP == [num |-> 12, den |-> 100]
FOLLOW_REMOVE_THROTTLE_MS == 180

\* how many times the follow button may start follow mode
MaxStarts == 2
\* how many calls of removeOrSplitTileAt follow mode may make
MaxFollowCalls == 2
\* how long the clock runs, in throttle windows
MaxWindows == 2

\* the positions navigator.geolocation reports
GeoPoints == {Pt(1, 2, 100, 100), Pt(1, 2, Cell(1) + 7, 100)}
\* the time between two frames of the render loop, in ms
FrameSteps == {FOLLOW_REMOVE_THROTTLE_MS \div 3, FOLLOW_REMOVE_THROTTLE_MS}

\* cur + (target - cur) * FOLLOW_LERP, in fixed point
Lerp(cur, target) ==
  cur + ((target - cur) * FOLLOW_LERP.num) \div FOLLOW_LERP.den

\* navigator.geolocation.watchPosition gives an id no watch in service has
NewWatchId == CHOOSE n \in 1..(Cardinality(watches) + 1) : n \notin watches

\* removeOrSplitTileAt called by follow mode, from the place `by`
FollowCall(p, by) ==
  /\ Len(followLog) < MaxFollowCalls
  /\ Call(p)
  /\ followLog' = Append(followLog, [t |-> now', by |-> by, lat |-> p.lat,
                                     lon |-> p.lon, afterStop |-> stopped,
                                     following |-> followLocation,
                                     session |-> starts])

\* function stopFollowing(): what it assigns
stopFollowing ==
  /\ followLocation' = FALSE
  /\ listeners' = IF listeners > 0 THEN listeners - 1 ELSE listeners
  /\ watches' = IF followWatchId # NoWatch THEN watches \ {followWatchId}
                ELSE watches
  /\ followWatchId' = NoWatch
  /\ followTarget' = NoPoint
  /\ stopped' = TRUE

\* what stopFollowing leaves alone
StopFollowingKeeps ==
  UNCHANGED <<followFlyInProgress, lastFollowRemoveTime, pendingPos, flight,
              camera, now, followLog, starts, regVars, lastPick, probe>>

\* function startFollowing(), up to the request of the current position
startFollowing ==
  /\ starts < MaxStarts
  /\ followLocation' = TRUE
  /\ followTarget' = NoPoint
  /\ pendingPos' = pendingPos + 1
  /\ stopped' = FALSE
  /\ starts' = starts + 1
  /\ UNCHANGED <<followFlyInProgress, followWatchId, lastFollowRemoveTime,
                 listeners, watches, flight, camera, now, followLog,
                 regVars, lastPick, probe>>

\* the click handler of the follow button
FollowButton ==
  IF followLocation THEN stopFollowing /\ StopFollowingKeeps
  ELSE startFollowing

\* the WHEEL handler: if (followLocation) stopFollowing()
Wheel ==
  /\ followLocation
  /\ stopFollowing
  /\ StopFollowingKeeps

\* the wrapper of viewer.camera.flyTo: does it call stopFollowing()?
CameraFlyToStops(following, flyInProgress) == following /\ ~flyInProgress

\* A flyTo made by something else than follow mode (the search box, the home
\* button).  Camera.flyTo cancels the flight under way, whose complete
\* callback is then never called; viewer.flyTo ends in a Camera.flyTo.

\* the wrapper of viewer.flyTo: if (followLocation) stopFollowing()
viewerFlyTo ==
  /\ IF followLocation THEN stopFollowing
     ELSE UNCHANGED <<followLocation, listeners, watches, followWatchId,
                      followTarget, stopped>>
  /\ flight' = NoPoint
  /\ UNCHANGED <<followFlyInProgress, lastFollowRemoveTime, pendingPos,
                 camera, now, followLog, starts, regVars, lastPick, probe>>

\* the wrapper of viewer.camera.flyTo, called by something else than the
\* success callback of getCurrentPosition
cameraFlyTo ==
  /\ IF CameraFlyToStops(followLocation, followFlyInProgress) THEN stopFollowing
     ELSE UNCHANGED <<followLocation, listeners, watches, followWatchId,
                      followTarget, stopped>>
  /\ flight' = NoPoint
  /\ UNCHANGED <<followFlyInProgress, lastFollowRemoveTime, pendingPos,
                 camera, now, followLog, starts, regVars, lastPick, probe>>

\* the success callback of getCurrentPosition: cancelFlight, then flyTo
PositionSuccess(p) ==
  /\ pendingPos > 0
  /\ pendingPos' = pendingPos - 1
  /\ followFlyInProgress' = TRUE
  /\ flight' = SomePoint(p)
  /\ IF CameraFlyToStops(followLocation, TRUE)
     THEN stopFollowing
     ELSE UNCHANGED <<followLocation, listeners, watches, followWatchId,
                      followTarget, stopped>>
  /\ UNCHANGED <<lastFollowRemoveTime, camera, now, followLog, starts,
                 regVars, lastPick, probe>>

\* the error callback of getCurrentPosition: stopFollowing()
PositionError ==
  /\ pendingPos > 0
  /\ pendingPos' = pendingPos - 1
  /\ stopFollowing
  /\ UNCHANGED <<followFlyInProgress, lastFollowRemoveTime, flight, camera,
                 now, followLog, starts, regVars, lastPick, probe>>

\* the complete callback of the flight started by PositionSuccess
FlightComplete ==
  /\ flight.set
  /\ flight' = NoPoint
  /\ camera' = [lat |-> flight.lat, lon |-> flight.lon]
  /\ followFlyInProgress' = FALSE
  /\ followTarget' = SomePoint(flight)
  /\ listeners' = listeners + 1
  /\ followWatchId' = NewWatchId
  /\ watches' = watches \cup {NewWatchId}
  /\ now' = now
  /\ FollowCall([lat |-> flight.lat, lon |-> flight.lon], "complete")
  /\ UNCHANGED <<followLocation, lastFollowRemoveTime, pendingPos, stopped,
                 starts, lastPick, probe>>

\* the callback of a watch in service: a new position
WatchUpdate(p) ==
  /\ watches # {}
  /\ followTarget' = SomePoint(p)
  /\ UNCHANGED <<followLocation, followFlyInProgress, followWatchId,
                 lastFollowRemoveTime, listeners, watches, pendingPos, flight,
                 camera, now, followLog, stopped, starts, regVars, lastPick,
                 probe>>

\* function onFollowTick() at time t, on the record ts of what it reads and
\* writes: the camera, lastFollowRemoveTime and the calls it made
onFollowTick(ts, t) ==
  IF ~followLocation \/ ~followTarget.set THEN ts
  ELSE LET newPos == [lat |-> Lerp(ts.camera.lat, followTarget.lat),
                      lon |-> Lerp(ts.camera.lon, followTarget.lon)]
       IN IF t - ts.last >= FOLLOW_REMOVE_THROTTLE_MS
          THEN [camera |-> newPos, last |-> t,
                calls |-> Append(ts.calls, newPos)]
          ELSE [camera |-> newPos, last |-> ts.last, calls |-> ts.calls]

\* preRender raises every registered listener in turn
RECURSIVE RaisePreRender(_, _, _)
RaisePreRender(ts, t, n) ==
  IF n = 0 THEN ts ELSE RaisePreRender(onFollowTick(ts, t), t, n - 1)

\* a frame of the render loop, dt ms after the last one
Frame(dt) ==
  /\ now + dt <= MaxWindows * FOLLOW_REMOVE_THROTTLE_MS
  /\ now' = now + dt
  /\ LET ts == RaisePreRender([camera |-> camera,
                               last |-> lastFollowRemoveTime,
                               calls |-> <<>>], now + dt, listeners)
     IN /\ camera' = ts.camera
        /\ lastFollowRemoveTime' = ts.last
        /\ IF ts.calls = <<>> THEN UNCHANGED <<regVars, followLog>>
           ELSE FollowCall(ts.calls[1], "tick")
  /\ UNCHANGED <<followLocation, followFlyInProgress, followWatchId,
                 followTarget, listeners, watches, pendingPos, flight,
                 stopped, starts, lastPick, probe>>

FollowNext ==
  \/ Wheel
  \/ cameraFlyTo
  \/ viewerFlyTo
  \/ FollowButton
  \/ \E p \in GeoPoints : PositionSuccess(p)
  \/ PositionError
  \/ FlightComplete
  \/ \E p \in GeoPoints : WatchUpdate(p)
  \/ \E dt \in FrameSteps : Frame(dt)

FollowSpec == Init /\ [][FollowNext]_vars

\* ------------------------------------------------ IEEE-754 double arithmetic
\* The functions of tileGrid.ts compute in JavaScript numbers.  A natural
\* number is a sequence of limbs in base LIMB, lowest limb first, with no zero
\* limb at the top; a finite double is [neg, mag, exp], the value
\* (-1)^neg * mag * 2^exp with mag odd (or mag zero, exp 0) and at most
\* MANTISSA_BITS bits.  Every operation computes the exact result and rounds
\* it to the nearest double, ties to even.  Exponents are not limited: the
\* results met here stay far from overflow and from the subnormal range (the
\* two neighbours of zero only enter sums with -90, 90 or 180).
LIMB_BITS == 15
LIMB == Pow2(LIMB_BITS)
MANTISSA_BITS == 53

RECURSIVE BNorm(_)
BNorm(a) ==
  IF a = <<>> THEN <<>>
  ELSE IF a[Len(a)] = 0 THEN BNorm(SubSeq(a, 1, Len(a) - 1)) ELSE a

RECURSIVE BFromNat(_)
BFromNat(n) == IF n = 0 THEN <<>> ELSE <<n % LIMB>> \o BFromNat(n \div LIMB)

RECURSIVE BToNat(_)
BToNat(a) == IF a = <<>> THEN 0 ELSE a[1] + LIMB * BToNat(Tail(a))

BLimb(a, i) == IF i <= Len(a) THEN a[i] ELSE 0

RECURSIVE BAddFrom(_, _, _, _)
BAddFrom(a, b, i, carry) ==
  IF i > Len(a) /\ i > Len(b)
  THEN (IF carry = 0 THEN <<>> ELSE <<carry>>)
  ELSE LET s == BLimb(a, i) + BLimb(b, i) + carry
       IN <<s % LIMB>> \o BAddFrom(a, b, i + 1, s \div LIMB)

BAdd(a, b) == BAddFrom(a, b, 1, 0)

\* a - b for a >= b
RECURSIVE BSubFrom(_, _, _, _)
BSubFrom(a, b, i, borrow) ==
  IF i > Len(a) THEN <<>>
  ELSE LET d == a[i] - BLimb(b, i) - borrow
       IN IF d < 0 THEN <<d + LIMB>> \o BSubFrom(a, b, i + 1, 1)
          ELSE <<d>> \o BSubFrom(a, b, i + 1, 0)

BSub(a, b) == BNorm(BSubFrom(a, b, 1, 0))

\* -1, 0 or 1 as a < b, a = b or a > b
RECURSIVE BCmpFrom(_, _, _)
BCmpFrom(a, b, i) ==
  IF i = 0 THEN 0
  ELSE IF a[i] < b[i] THEN -1
  ELSE IF a[i] > b[i] THEN 1
  ELSE BCmpFrom(a, b, i - 1)

BCmp(a, b) ==
  IF Len(a) < Len(b) THEN -1
  ELSE IF Len(a) > Len(b) THEN 1
  ELSE BCmpFrom(a, b, Len(a))

\* a * k for 0 <= k < LIMB
RECURSIVE BMulSmallFrom(_, _, _, _)
BMulSmallFrom(a, k, i, carry) ==
  IF i > Len(a) THEN (IF carry = 0 THEN <<>> ELSE <<carry>>)
  ELSE LET p == a[i] * k + carry
       IN <<p % LIMB>> \o BMulSmallFrom(a, k, i + 1, p \div LIMB)

BMulSmall(a, k) == BNorm(BMulSmallFrom(a, k, 1, 0))

BShiftLimbs(a, n) == IF a = <<>> THEN <<>> ELSE [i \in 1..n |-> 0] \o a

RECURSIVE BMulFrom(_, _, _)
BMulFrom(a, b, j) ==
  IF j > Len(b) THEN <<>>
  ELSE BAdd(BShiftLimbs(BMulSmall(a, b[j]), j - 1), BMulFrom(a, b, j + 1))

BMul(a, b) == BMulFrom(a, b, 1)

\* a * 2^k
BShl(a, k) == BShiftLimbs(BMulSmall(a, Pow2(k % LIMB_BITS)), k \div LIMB_BITS)

\* floor(a / 2^k)
BShr(a, k) ==
  LET drop == k \div LIMB_BITS
      d == Pow2(k % LIMB_BITS)
      x == IF drop >= Len(a) THEN <<>> ELSE SubSeq(a, drop + 1, Len(a))
  IN BNorm([i \in 1..Len(x) |->
              (x[i] \div d) + (BLimb(x, i + 1) % d) * (LIMB \div d)])

\* the k lowest bits of a are all zero
BLowBitsZero(a, k) ==
  /\ \A i \in 1..(k \div LIMB_BITS) : BLimb(a, i) = 0
  /\ BLimb(a, k \div LIMB_BITS + 1) % Pow2(k % LIMB_BITS) = 0

\* bit i of a, bit 0 the lowest
BBit(a, i) ==
  (BLimb(a, i \div LIMB_BITS + 1) \div Pow2(i % LIMB_BITS)) % 2

RECURSIVE SmallBitLen(_)
SmallBitLen(n) == IF n = 0 THEN 0 ELSE 1 + SmallBitLen(n \div 2)

BBitLen(a) ==
  IF a = <<>> THEN 0
  ELSE LIMB_BITS * (Len(a) - 1) + SmallBitLen(a[Len(a)])

\* long division of a by b, one bit of a at a time; st is [q, r] so far
BDivStep(a, b, i, st) ==
  LET r2 == BAdd(BShl(st.r, 1), BFromNat(BBit(a, i)))
      q2 == BShl(st.q, 1)
  IN IF BCmp(r2, b) >= 0 THEN [q |-> BAdd(q2, <<1>>), r |-> BSub(r2, b)]
     ELSE [q |-> q2, r |-> r2]

\* the steps for bits hi down to lo of a
RECURSIVE BDivRange(_, _, _, _, _)
BDivRange(a, b, hi, lo, st) ==
  IF hi < lo THEN st
  ELSE IF hi = lo THEN BDivStep(a, b, hi, st)
  ELSE LET mid == (hi + lo + 1) \div 2
           upper == BDivRange(a, b, hi, mid, st)
       IN IF Len(upper.q) >= 0 THEN BDivRange(a, b, mid - 1, lo, upper)
          ELSE upper

\* [q, r] with a = q * b + r and r < b
BDivMod(a, b) ==
  BDivRange(a, b, BBitLen(a) - 1, 0, [q |-> <<>>, r |-> <<>>])

\* how many low limbs of a # 0 are zero, how many low bits of n # 0 are zero
RECURSIVE ZeroLimbs(_, _)
ZeroLimbs(a, i) == IF a[i + 1] # 0 THEN i ELSE ZeroLimbs(a, i + 1)
RECURSIVE ZeroBits(_)
ZeroBits(n) == IF n % 2 = 1 THEN 0 ELSE 1 + ZeroBits(n \div 2)
\* how many low bits of a # 0 are zero
TrailingZeros(a) ==
  LIMB_BITS * ZeroLimbs(a, 0) + ZeroBits(a[ZeroLimbs(a, 0) + 1])

FZero == [neg |-> FALSE, mag |-> <<>>, exp |-> 0]

\* the double with value (-1)^neg * mag * 2^exp, mag of at most 53 bits
FCanon(neg, mag, exp) ==
  IF mag = <<>> THEN FZero
  ELSE LET tz == TrailingZeros(mag)
       IN [neg |-> neg, mag |-> BShr(mag, tz), exp |-> exp + tz]

\* the double nearest to (-1)^neg * mag * 2^exp, ties to even
FRound(neg, mag, exp) ==
  LET len == BBitLen(mag)
      k == len - MANTISSA_BITS
      q == BShr(mag, k)
      up == /\ BBit(mag, k - 1) = 1
            /\ (~BLowBitsZero(mag, k - 1) \/ BBit(q, 0) = 1)
  IN IF len <= MANTISSA_BITS THEN FCanon(neg, mag, exp)
     ELSE FCanon(neg, IF up THEN BAdd(q, <<1>>) ELSE q, exp + k)

\* the double of an integer
FInt(n) == FCanon(n < 0, BFromNat(IF n < 0 THEN -n ELSE n), 0)

FNeg(a) == IF a.mag = <<>> THEN a ELSE [a EXCEPT !.neg = ~a.neg]

\* the magnitudes of a and b over their common exponent
Aligned(a, b) ==
  LET e == Min(a.exp, b.exp)
  IN [a |-> BShl(a.mag, a.exp - e), b |-> BShl(b.mag, b.exp - e), exp |-> e]

\* the exponent of the highest bit of a # 0, plus one
Top(a) == a.exp + BBitLen(a.mag)

\* -1, 0 or 1 as |a| < |b|, |a| = |b| or |a| > |b|
MagCmp(a, b) ==
  IF a.mag = <<>> \/ b.mag = <<>>
  THEN (IF a.mag # <<>> THEN 1 ELSE IF b.mag # <<>> THEN -1 ELSE 0)
  ELSE IF Top(a) < Top(b) THEN -1
  ELSE IF Top(a) > Top(b) THEN 1
  ELSE BCmp(Aligned(a, b).a, Aligned(a, b).b)

\* -1, 0 or 1 as a < b, a = b or a > b
FCmp(a, b) ==
  IF a.neg /\ ~b.neg THEN -1
  ELSE IF ~a.neg /\ b.neg THEN 1
  ELSE IF a.neg THEN -MagCmp(a, b) ELSE MagCmp(a, b)

FLess(a, b) == FCmp(a, b) < 0
FLeq(a, b) == FCmp(a, b) <= 0

\* b is below a quarter of the last of the 53 places of a: a + b rounds to a
Negligible(b, a) == Top(b) <= Top(a) - MANTISSA_BITS - 2

\* a + b
FAdd(a, b) ==
  IF a.mag = <<>> THEN b
  ELSE IF b.mag = <<>> THEN a
  ELSE IF Negligible(b, a) THEN a
  ELSE IF Negligible(a, b) THEN b
  ELSE LET al == Aligned(a, b)
           c == BCmp(al.a, al.b)
       IN IF a.neg = b.neg THEN FRound(a.neg, BAdd(al.a, al.b), al.exp)
          ELSE IF c = 0 THEN FZero
          ELSE IF c > 0 THEN FRound(a.neg, BSub(al.a, al.b), al.exp)
          ELSE FRound(b.neg, BSub(al.b, al.a), al.exp)

FSub(a, b) == FAdd(a, FNeg(b))

\* a * b
FMul(a, b) == FRound(a.neg # b.neg, BMul(a.mag, b.mag), a.exp + b.exp)

\* a / b for b # 0: the quotient to 55 bits or more, and one more bit set when
\* the division left a remainder
FDiv(a, b) ==
  LET s == Max(0, MANTISSA_BITS + 2 + BBitLen(b.mag) - BBitLen(a.mag))
      d == BDivMod(BShl(a.mag, s), b.mag)
  IN IF a.mag = <<>> THEN FZero
     ELSE IF d.r = <<>> THEN FRound(a.neg # b.neg, d.q, a.exp - b.exp - s)
     ELSE FRound(a.neg # b.neg, BAdd(BShl(d.q, 1), <<1>>),
                 a.exp - b.exp - s - 1)

\* Math.floor(a) as an integer
FFloor(a) ==
  IF a.exp >= 0
  THEN (IF a.neg THEN -1 ELSE 1) * BToNat(BShl(a.mag, a.exp))
  ELSE LET q == BToNat(BShr(a.mag, -a.exp))
       IN IF a.neg THEN -(q + 1) ELSE q

\* the mantissa of a # 0 on exactly 53 bits, and its exponent
Full(a) ==
  LET sh == MANTISSA_BITS - BBitLen(a.mag)
  IN [mag |-> BShl(a.mag, sh), exp |-> a.exp - sh]

\* the neighbours of a # 0 among the doubles: away from zero, towards zero
FAway(a) ==
  LET f == Full(a) IN FCanon(a.neg, BAdd(f.mag, <<1>>), f.exp)
FTowards(a) ==
  LET f == Full(a)
  IN IF BBitLen(BSub(f.mag, <<1>>)) < MANTISSA_BITS
     THEN FCanon(a.neg, BSub(BShl(f.mag, 1), <<1>>), f.exp - 1)
     ELSE FCanon(a.neg, BSub(f.mag, <<1>>), f.exp)
\* the smallest double above zero, 2^-1074
MIN_EXP == -1074
FMinPos == [neg |-> FALSE, mag |-> <<1>>, exp |-> MIN_EXP]
\* the next double above a, the next double below
FNextUp(a) ==
  IF a = FZero THEN FMinPos ELSE IF a.neg THEN FTowards(a) ELSE FAway(a)
FNextDown(a) ==
  IF a = FZero THEN FNeg(FMinPos)
  ELSE IF a.neg THEN FAway(a) ELSE FTowards(a)

\* ------------------------------------------- tileGrid.ts in double arithmetic
\* The fixed-point functions above are exact on the 18 x 36 grid of the
\* viewer.  For any grid and any rectangle the functions are computed as
\* JavaScript computes them, in doubles.
DEFAULT_GRID_CONFIG == [latCount |-> 36, lonCount |-> 72]

F2 == FInt(2)
F90 == FInt(90)
F180 == FInt(180)
F360 == FInt(360)

tileBoundsF(row, col, config, gapFraction) ==
  LET latStep == FDiv(F180, FInt(config.latCount))
      lonStep == FDiv(F360, FInt(config.lonCount))
      south == FAdd(FNeg(F90), FMul(FInt(row), latStep))
      north == FAdd(south, latStep)
      west == FAdd(FNeg(F180), FMul(FInt(col), lonStep))
      east == FAdd(west, lonStep)
      marginLon == FMul(lonStep, gapFraction)
      marginLat == FMul(latStep, gapFraction)
  IN IF FLess(FZero, gapFraction)
     THEN [west |-> FAdd(west, FDiv(marginLon, F2)),
           south |-> FAdd(south, FDiv(marginLat, F2)),
           east |-> FSub(east, FDiv(marginLon, F2)),
           north |-> FSub(north, FDiv(marginLat, F2))]
     ELSE [west |-> west, south |-> south, east |-> east, north |-> north]

quadrantBoundsF_SwapsEast(bounds, quadrant) ==
  LET midLon == FDiv(FAdd(bounds.west, bounds.east), F2)
      midLat == FDiv(FAdd(bounds.south, bounds.north), F2)
  IN CASE quadrant = 0 -> [west |-> bounds.west, south |-> bounds.south,
                           east |-> midLon, north |-> midLat]
       [] quadrant = 1 -> [west |-> bounds.west, south |-> bounds.south,
                           east |-> midLon, north |-> midLat]
       [] quadrant = 2 -> [west |-> bounds.west, south |-> midLat,
                           east |-> midLon, north |-> bounds.north]
       [] quadrant = 3 -> [west |-> midLon, south |-> midLat,
                           east |-> bounds.east, north |-> bounds.north]
quadrantBoundsF(bounds, quadrant) ==
  LET midLon == FDiv(FAdd(bounds.west, bounds.east), F2)
      midLat == FDiv(FAdd(bounds.south, bounds.north), F2)
  IN CASE quadrant = 0 -> [west |-> bounds.west, south |-> bounds.south,
                           east |-> midLon, north |-> midLat]
       [] quadrant = 1 -> [west |-> midLon, south |-> bounds.south,
                           east |-> bounds.east, north |-> midLat]
       [] quadrant = 2 -> [west |-> bounds.west, south |-> midLat,
                           east |-> midLon, north |-> bounds.north]
       [] quadrant = 3 -> [west |-> midLon, south |-> midLat,
                           east |-> bounds.east, north |-> bounds.north]

\* x << k and x | y on small naturals
ShiftLeft(x, k) == x * Pow2(k)
RECURSIVE BitOr(_, _)
BitOr(x, y) ==
  IF x = 0 THEN y
  ELSE IF y = 0 THEN x
  ELSE Max(x % 2, y % 2) + 2 * BitOr(x \div 2, y \div 2)

quadrantAtF_SwapsBits(lat, lon, bounds) ==
  LET midLon == FDiv(FAdd(bounds.west, bounds.east), F2)
      midLat == FDiv(FAdd(bounds.south, bounds.north), F2)
      north == IF FLeq(midLat, lat) THEN 1 ELSE 0
      east == IF FLeq(midLon, lon) THEN 1 ELSE 0
  IN BitOr(ShiftLeft(east, 1), north)
quadrantAtF_Strict(lat, lon, bounds) ==
  LET midLon == FDiv(FAdd(bounds.west, bounds.east), F2)
      midLat == FDiv(FAdd(bounds.south, bounds.north), F2)
      north == IF FLess(midLat, lat) THEN 1 ELSE 0
      east == IF FLess(midLon, lon) THEN 1 ELSE 0
  IN BitOr(ShiftLeft(north, 1), east)
quadrantAtF(lat, lon, bounds) ==
  LET midLon == FDiv(FAdd(bounds.west, bounds.east), F2)
      midLat == FDiv(FAdd(bounds.south, bounds.north), F2)
      north == IF FLeq(midLat, lat) THEN 1 ELSE 0
      east == IF FLeq(midLon, lon) THEN 1 ELSE 0
  IN BitOr(ShiftLeft(north, 1), east)

latLonToTileF(lat, lon, config) ==
  LET latStep == FDiv(F180, FInt(config.latCount))
      lonStep == FDiv(F360, FInt(config.lonCount))
      row == Min(FFloor(FDiv(FAdd(lat, F90), latStep)), config.latCount - 1)
      col == Min(FFloor(FDiv(FAdd(lon, F180), lonStep)), config.lonCount - 1)
  IN [row |-> Max(0, row), col |-> Max(0, col)]

\* ------------------------------------------------- inputs of the functions
\* the largest latCount of the grids tried
MaxLatCount == 11

Configs ==
  {[latCount |-> n, lonCount |-> 2 * n] : n \in 1..MaxLatCount}
    \cup {gridConfig, DEFAULT_GRID_CONFIG}

\* Rows and columns are computed apart, by the same expressions: the tiles
\* tried are, for every row r, those of columns 2r and 2r + 1, which cover
\* every row and every column of a grid with twice as many columns as rows.
SampleTiles(config) ==
  {[row |-> r, col |-> 2 * r + k] : r \in 0..(config.latCount - 1), k \in 0..1}

\* where the point is taken in the rectangle
Places == {"center", "southWest", "northEast", "northWest", "insideNE"}

\* The rectangle is a tile of the grid or, for the tiles of row 0, a sliver a
\* few doubles wide at the corner of the tile.
InputsOf(cfg) ==
  {[config |-> cfg, row |-> t.row, col |-> t.col, place |-> pl,
    shape |-> "tile"] : t \in SampleTiles(cfg), pl \in Places}
    \cup {[config |-> cfg, row |-> 0, col |-> k, place |-> pl,
           shape |-> "sliver"] : k \in 0..1, pl \in Places}

GridInputs ==
  UNION {InputsOf(cfg) : cfg \in Configs}
    \cup {[config |-> DEFAULT_GRID_CONFIG, row |-> 20, col |-> 38,
           place |-> "southWest", shape |-> "tile"]}

\* a base for a sliver: v, or 1 when v is zero
SliverBase(v) == IF v = FZero THEN FInt(1) ELSE v
\* three doubles wide, one double high, at the south-west corner of b
Sliver(b) ==
  [west |-> SliverBase(b.west),
   east |-> FNextUp(FNextUp(FNextUp(SliverBase(b.west)))),
   south |-> SliverBase(b.south),
   north |-> FNextUp(SliverBase(b.south))]

\* the point of rectangle b at the place named
PointAt(b, place) ==
  CASE place = "center" ->
         [lat |-> FDiv(FAdd(b.south, b.north), F2),
          lon |-> FDiv(FAdd(b.west, b.east), F2)]
    [] place = "southWest" -> [lat |-> b.south, lon |-> b.west]
    [] place = "northEast" -> [lat |-> b.north, lon |-> b.east]
    [] place = "northWest" -> [lat |-> b.north, lon |-> b.west]
    [] place = "insideNE" ->
         [lat |-> FNextDown(b.north), lon |-> FNextDown(b.east)]

\* The probe is a record of the inputs and of what was computed so far; a
\* field not computed yet holds NoValue.
NoValue == <<>>
GridProbe(op, inp, tile, b, pt, id, q, qs) ==
  [op |-> op, config |-> inp.config, row |-> inp.row, col |-> inp.col,
   place |-> inp.place, shape |-> inp.shape, tile |-> tile, b |-> b,
   pt |-> pt, id |-> id, q |-> q, qs |-> qs]

\* tileGrid.ts is loaded before geoUtils.ts builds the grid: viewer.entities
\* is still empty, and the inputs of the functions are chosen
GridInit ==
  /\ ViewerInit({})
  /\ \E inp \in GridInputs :
       probe = GridProbe("input", inp, NoValue, NoValue, NoValue, NoValue,
                         NoValue, NoValue)

\* tileBounds(row, col, config, 0), and the rectangle worked on
ApplyTileBounds ==
  /\ probe.op = "input"
  /\ \E tile \in {tileBoundsF(probe.row, probe.col, probe.config, FZero)} :
       \E b \in {IF probe.shape = "sliver" THEN Sliver(tile) ELSE tile} :
         probe' = GridProbe("bounds", probe, tile, b, NoValue, NoValue,
                            NoValue, NoValue)
  /\ UNCHANGED <<regVars, lastPick, followVars>>

\* the caller takes a point of the rectangle
PickPoint ==
  /\ probe.op = "bounds"
  /\ \E pt \in {PointAt(probe.b, probe.place)} :
       probe' = GridProbe("point", probe, probe.tile, probe.b, pt, NoValue,
                          NoValue, NoValue)
  /\ UNCHANGED <<regVars, lastPick, followVars>>

\* latLonToTile(lat, lon, config)
ApplyLatLonToTile ==
  /\ probe.op = "point"
  /\ \E id \in {latLonToTileF(probe.pt.lat, probe.pt.lon, probe.config)} :
       probe' = GridProbe("located", probe, probe.tile, probe.b, probe.pt,
                          id, NoValue, NoValue)
  /\ UNCHANGED <<regVars, lastPick, followVars>>

\* quadrantAt(lat, lon, b)
ApplyQuadrantAt ==
  /\ probe.op = "located"
  /\ \E q \in {quadrantAtF(probe.pt.lat, probe.pt.lon, probe.b)} :
       probe' = GridProbe("quadrant", probe, probe.tile, probe.b, probe.pt,
                          probe.id, q, NoValue)
  /\ UNCHANGED <<regVars, lastPick, followVars>>

\* quadrantBounds(b, q) for the four quadrants
ApplyQuadrantBounds ==
  /\ probe.op = "quadrant"
  /\ \E q0 \in {quadrantBoundsF(probe.b, 0)} :
     \E q1 \in {quadrantBoundsF(probe.b, 1)} :
     \E q2 \in {quadrantBoundsF(probe.b, 2)} :
     \E q3 \in {quadrantBoundsF(probe.b, 3)} :
       probe' = GridProbe("quadrants", probe, probe.tile, probe.b, probe.pt,
                          probe.id, probe.q, <<q0, q1, q2, q3>>)
  /\ UNCHANGED <<regVars, lastPick, followVars>>

GridNext ==
  \/ ApplyTileBounds
  \/ PickPoint
  \/ ApplyLatLonToTile
  \/ ApplyQuadrantAt
  \/ ApplyQuadrantBounds

GridSpec == GridInit /\ [][GridNext]_vars

\* ------------------------------------ identifiers of tiles, as JavaScript
\* The indices of a TileId are numbers (doubles); `${n}` prints a number by
\* Number::toString and parseInt reads a run of digits back into a number.
\* The indices used here are integers that are below 2^53 or have at most 15
\* significant decimal digits, so the digits Number::toString prints are the
\* digits of the exact value.

\* Number::toString prints an integer of more than this many digits with an
\* exponent
MAX_PLAIN_DIGITS == 21

\* the natural number (in limbs) a non-negative integer double holds
BOfInteger(v) == IF v.mag = <<>> THEN <<>> ELSE BShl(v.mag, v.exp)

\* a natural number in limbs divided by 0 < k < LIMB, from its highest limb
\* down: [q, r] with the limbs of the quotient, highest first, in q
RECURSIVE BDivSmallFrom(_, _, _, _)
BDivSmallFrom(a, k, i, r) ==
  IF i = 0 THEN [q |-> <<>>, r |-> r]
  ELSE LET cur == r * LIMB + a[i]
           rest == BDivSmallFrom(a, k, i - 1, cur % k)
       IN [q |-> <<cur \div k>> \o rest.q, r |-> rest.r]

Reverse(q) == [i \in 1..Len(q) |-> q[Len(q) + 1 - i]]

BDivSmall(a, k) ==
  LET d == BDivSmallFrom(a, k, Len(a), 0)
  IN [q |-> BNorm(Reverse(d.q)), r |-> d.r]

\* the decimal digits of a natural number in limbs, DIGIT_GROUP digits at a
\* time
DIGIT_GROUP == 4
TenToGroup == 10000
LeftPad(digits) ==
  [i \in 1..(DIGIT_GROUP - Len(digits)) |-> "0"] \o digits

RECURSIVE BDigits(_)
BDigits(a) ==
  IF BCmp(a, <<TenToGroup>>) < 0 THEN NumToString(BToNat(a))
  ELSE LET d == BDivSmall(a, TenToGroup)
       IN BDigits(d.q) \o LeftPad(NumToString(d.r))

\* the digits without the zeros that end them
RECURSIVE Significant(_)
Significant(digits) ==
  IF Len(digits) > 1 /\ digits[Len(digits)] = "0"
  THEN Significant(SubSeq(digits, 1, Len(digits) - 1))
  ELSE digits

\* Number::toString of a non-negative integer double
NumberToString(v) ==
  LET digits == BDigits(BOfInteger(v))
      sig == Significant(digits)
  IN IF Len(digits) <= MAX_PLAIN_DIGITS THEN digits
     ELSE <<sig[1]>>
          \o (IF Len(sig) > 1 THEN <<".">> \o SubSeq(sig, 2, Len(sig)) ELSE <<>>)
          \o <<"e", "+">> \o NumToString(Len(digits) - 1)

\* `tile_${tile.row}_${tile.col}`, the indices being numbers
TilePrefix == <<"t", "i", "l", "e", "_">>
tileIdToStringN(tile) ==
  TilePrefix \o NumberToString(tile.row) \o <<"_">> \o NumberToString(tile.col)

\* \d
IsDigit(ch) == \E d \in 1..Len(DigitChars) : DigitChars[d] = ch

\* how many characters \d+ takes at position i
RECURSIVE DigitRun(_, _)
DigitRun(s, i) ==
  IF i <= Len(s) /\ IsDigit(s[i]) THEN 1 + DigitRun(s, i + 1) ELSE 0

DigitValue(ch) == CHOOSE d \in 0..9 : DigitChars[d + 1] = ch

\* the number a string of decimal digits denotes
RECURSIVE DigitsToNum(_)
DigitsToNum(tok) ==
  IF Len(tok) = 0 THEN 0
  ELSE 10 * DigitsToNum(SubSeq(tok, 1, Len(tok) - 1)) + DigitValue(tok[Len(tok)])

\* the natural number (in limbs) a run of digits denotes, DIGIT_GROUP digits
\* at a time
RECURSIVE BOfDigits(_)
BOfDigits(tok) ==
  IF Len(tok) <= DIGIT_GROUP THEN BFromNat(DigitsToNum(tok))
  ELSE LET front == BOfDigits(SubSeq(tok, 1, Len(tok) - DIGIT_GROUP))
           back == DigitsToNum(SubSeq(tok, Len(tok) - DIGIT_GROUP + 1, Len(tok)))
       IN BAdd(BMulSmall(front, TenToGroup), BFromNat(back))

\* parseInt(tok, 10) of a run of digits: the double nearest to the number
parseInt(tok) == FRound(FALSE, BNorm(BOfDigits(tok)), 0)

\* what parseTileId returns: null, or a TileId
Null == [isNull |-> TRUE]
Parsed(row, col) == [isNull |-> FALSE, row |-> row, col |-> col]

\* parseTileId without the $ of its pattern: what follows the column is ignored
parseTileId_Unanchored(id) ==
  LET first == Len(TilePrefix) + 1
      r == DigitRun(id, first)
      c == DigitRun(id, first + r + 1)
  IN IF /\ StartsWith(id, TilePrefix)
        /\ r >= 1
        /\ first + r <= Len(id)
        /\ id[first + r] = "_"
        /\ c >= 1
     THEN Parsed(parseInt(SubSeq(id, first, first + r - 1)),
                 parseInt(SubSeq(id, first + r + 1, first + r + c)))
     ELSE Null

\* parseTileId: id.match(/^tile_(\d+)_(\d+)$/), then parseInt of both groups
parseTileId(id) ==
  LET first == Len(TilePrefix) + 1
      r == DigitRun(id, first)
      c == DigitRun(id, first + r + 1)
  IN IF /\ StartsWith(id, TilePrefix)
        /\ r >= 1
        /\ first + r <= Len(id)
        /\ id[first + r] = "_"
        /\ c >= 1
        /\ first + r + c = Len(id)
     THEN Parsed(parseInt(SubSeq(id, first, first + r - 1)),
                 parseInt(SubSeq(id, first + r + 1, first + r + c)))
     ELSE Null

\* the indices tried: 0..MaxIndex, indices of the grids of this program, the
\* largest integer below which every integer is a double, and integers of 21
\* and 22 digits
MaxIndex == 3
F10 == FInt(10)
TenTo7 == FInt(10000000)
TenTo21 == FMul(FMul(TenTo7, TenTo7), TenTo7)
IndexValues ==
  {FInt(n) : n \in 0..MaxIndex}
    \cup {F10, FInt(LAT_COUNT - 1), FInt(LON_COUNT - 1), FInt(100),
          [neg |-> FALSE, mag |-> <<1>>, exp |-> MANTISSA_BITS],
          FDiv(TenTo21, F10), TenTo21, FMul(FInt(12), TenTo21)}
TileIds == {[row |-> r, col |-> c] : r \in IndexValues, c \in IndexValues}

\* strings handed to parseTileId that no tileIdToString call made
GivenStrings ==
  { TilePrefix \o <<"a", "b", "c", "_", "1">>,
    TilePrefix \o <<"1">>,
    <<>>,
    TilePrefix \o <<"1", "_", "2", "_", "3">>,
    TilePrefix \o <<"1", "_", "2", "_">>,
    TilePrefix \o <<"_", "2">>,
    TilePrefix \o <<"1", "_">>,
    TilePrefix \o <<"1", "_", "2", "x">>,
    TilePrefix \o <<"-", "1", "_", "2">>,
    TilePrefix \o <<"1", ".", "5", "_", "2">>,
    TilePrefix \o <<"1", "_", "2", " ">>,
    <<" ">> \o TilePrefix \o <<"1", "_", "2">>,
    <<"T", "i", "l", "e", "_", "1", "_", "2">>,
    <<"t", "i", "l", "e", "1", "_", "2">>,
    TilePrefix \o <<"0", "0", "7", "_", "0", "8">>,
    TilePrefix \o <<"1", "_", "2", "0">> }

IdProbe(op, from, tile, str, parsed) ==
  [op |-> op, from |-> from, tile |-> tile, str |-> str, parsed |-> parsed]

\* tileGrid.ts is loaded and a TileId or a string is at hand
IdInit ==
  /\ ViewerInit({})
  /\ \/ \E t \in TileIds : probe = IdProbe("tile", "tile", t, NoValue, Null)
     \/ \E s \in GivenStrings : probe = IdProbe("string", "given", NoValue, s, Null)

ApplyTileIdToString ==
  /\ probe.op = "tile"
  /\ \E s \in {tileIdToStringN(probe.tile)} :
       probe' = IdProbe("string", probe.from, probe.tile, s, Null)
  /\ UNCHANGED <<regVars, lastPick, followVars>>

ApplyParseTileId ==
  /\ probe.op = "string"
  /\ \E t \in {parseTileId(probe.str)} :
       probe' = IdProbe("parsed", probe.from, probe.tile, probe.str, t)
  /\ UNCHANGED <<regVars, lastPick, followVars>>

IdNext ==
  \/ ApplyTileIdToString
  \/ ApplyParseTileId

IdSpec == IdInit /\ [][IdNext]_vars

\* ------------------------------------------------- reading an identifier
\* the pieces of a string between its underscores
RECURSIVE SplitUnderscore(_, _, _)
SplitUnderscore(s, i, cur) ==
  IF i > Len(s) THEN <<cur>>
  ELSE IF s[i] = "_" THEN <<cur>> \o SplitUnderscore(s, i + 1, <<>>)
  ELSE SplitUnderscore(s, i + 1, Append(cur, s[i]))

\* row, column and quadrant path of tile_<row>_<col>_<q0>_..._<qn>
ReadId(id) ==
  LET t == SplitUnderscore(id, 1, <<>>)
  IN [row |-> DigitsToNum(t[2]), col |-> DigitsToNum(t[3]),
      path |-> [i \in 1..(Len(t) - 3) |-> DigitsToNum(t[i + 3])]]

\* length of the quadrant path of an identifier
PathLen(id) == Cardinality({k \in 1..Len(id) : id[k] = "_"}) - 2

\* the identifiers of which id is a descendant: what precedes an underscore
Ancestors(id) == {SubSeq(id, 1, k - 1) : k \in {j \in 1..Len(id) : id[j] = "_"}}

\* the un-inset cell of a quadrant path below a rectangle
RECURSIVE CellOfPath(_, _)
CellOfPath(bounds, path) ==
  IF Len(path) = 0 THEN bounds
  ELSE CellOfPath(quadrantBounds(bounds, Head(path)), Tail(path))

\* the un-inset cell an identifier denotes
CellOfId(id) ==
  LET r == ReadId(id)
  IN CellOfPath(tileBounds(r.row, r.col, gridConfig, [num |-> 0, den |-> 1]), r.path)

\* a rectangle contains a point, edges included
Contains(b, lat, lon) ==
  /\ b.west <= lon /\ lon <= b.east
  /\ b.south <= lat /\ lat <= b.north

\* the last call and the one before it
Called == Len(hist) > 0
LastCall == hist[Len(hist)]
CalledTwice == Len(hist) > 1
PrevCall == hist[Len(hist) - 1]

\* ------------------------------------------------------------------ claims

\* C1: in every reachable state the registry is a non-overlapping tiling: no
\* registered identifier is an ancestor of another registered identifier,
\* neither the base id of a registered sub-tile nor a proper prefix of its
\* quadrant path.
C1_NoRegisteredAncestor ==
  LET ids == Ids(registry)
  IN \A id \in ids : Ancestors(id) \cap ids = {}

\* a sub-tile left by a first split has been re-split
C1_Witness ==
  /\ CalledTwice
  /\ PrevCall.kind = "base"
  /\ LastCall.kind = "sub"
  /\ LastCall.depth < SPLIT_DEPTH
  /\ Len(LastCall.added) > 0

\* C2: immediately after a call removeOrSplitTileAt(lat, lon), made in any
\* reachable state, no registered entity has bounds that contain (lat, lon).
C2_PointUncovered ==
  Called => \A e \in registry : ~Contains(e.b, LastCall.lat, LastCall.lon)

\* a call has split a tile at a point the tile's rectangle contained
C2_Witness ==
  /\ Called
  /\ LastCall.kind = "base"
  /\ \E e \in regBefore :
        e.id = LastCall.target /\ Contains(e.b, LastCall.lat, LastCall.lon)

\* C3: no call ever faults, that is, addTileEntity is never reached with an
\* identifier that is registered at that moment.
C3_NeverThrows == ~threw

\* calls of all three kinds have run and added entities without a fault
C3_Witness ==
  /\ ~threw
  /\ \E i, j, k \in 1..Len(hist) :
        /\ hist[i].kind = "base" /\ hist[j].kind = "sub" /\ hist[k].kind = "hole"
        /\ Len(hist[j].added) > 0

\* the ids of a registry that are id or extend it
SubtreeOf(reg, id) ==
  {x \in Ids(reg) : x = id \/ StartsWith(x, id \o <<"_">>)}

\* the id one level up: the id without its last quadrant
ParentId(id) == SubSeq(id, 1, Len(id) - 2)

\* the last quadrant of a sub-tile id
LastQuadrant(id) == DigitValue(id[Len(id)])

\* C4: a call at a point inside a visible sub-tile with a quadrant path of
\* length c, 1 <= c <= SPLIT_DEPTH, removes that sub-tile and every registered
\* entity whose id extends it, and adds exactly three entities at every path
\* length from c+1 to SPLIT_DEPTH: the siblings of the quadrant that contains
\* the point, all with ids extending the removed id; it adds nothing else, and
\* nothing at all when c = SPLIT_DEPTH.
C4_ReSplitsToFullDepth ==
  (Called /\ LastCall.kind = "sub") =>
    LET h == LastCall
        c == h.depth
        gone == SubtreeOf(regBefore, h.target)
        A == {h.added[i] : i \in 1..Len(h.added)}
        AtLen(n) == {id \in A : PathLen(id) = n}
    IN /\ c = PathLen(h.target) /\ 1 <= c /\ c <= SPLIT_DEPTH
       /\ h.target \in Ids(regBefore)
       /\ Contains(CellOfId(h.target), h.lat, h.lon)
       /\ h.removed = gone
       /\ A \cap Ids(regBefore) = {}
       /\ Ids(registry) = (Ids(regBefore) \ gone) \cup A
       /\ {e \in registry : e.id \notin A} = {e \in regBefore : e.id \notin gone}
       /\ Len(h.added) = 3 * (SPLIT_DEPTH - c)
       /\ Cardinality(A) = Len(h.added)
       /\ \A id \in A : StartsWith(id, h.target \o <<"_">>)
       /\ \A n \in (c + 1)..SPLIT_DEPTH :
             LET parents == {ParentId(id) : id \in AtLen(n)}
                 quadrants == {LastQuadrant(id) : id \in AtLen(n)}
             IN /\ Cardinality(AtLen(n)) = 3
                /\ Cardinality(parents) = 1
                /\ Cardinality(quadrants) = 3
                /\ \A par \in parents :
                      /\ Contains(CellOfId(par), h.lat, h.lon)
                      /\ \A q \in 0..3 \ quadrants :
                            /\ q = quadrantAt(h.lat, h.lon, CellOfId(par))
                            /\ n < SPLIT_DEPTH =>
                                 \A id \in AtLen(n + 1) :
                                    ParentId(id) = par \o <<"_">> \o NumToString(q)

\* a sub-tile at full depth has been removed, then a shallower one re-split
C4_Witness ==
  /\ CalledTwice
  /\ PrevCall.kind = "sub" /\ PrevCall.depth = SPLIT_DEPTH
  /\ Len(PrevCall.added) = 0
  /\ LastCall.kind = "sub" /\ LastCall.depth < SPLIT_DEPTH
  /\ Len(LastCall.added) > 0

\* C8: in every reachable state every registered identifier has a quadrant
\* path of length at most SPLIT_DEPTH, whether it was created by the first
\* split of a tile or by the re-split of a sub-tile.
C8_DepthBounded == \A id \in Ids(registry) : PathLen(id) <= SPLIT_DEPTH

\* a first split and a re-split have each created entities at full depth
C8_Witness ==
  \E i, j \in 1..Len(hist) :
     /\ hist[i].kind = "base" /\ hist[j].kind = "sub"
     /\ \E k \in 1..Len(hist[i].added) :
           /\ PathLen(hist[i].added[k]) = SPLIT_DEPTH
           /\ hist[i].added[k] \in Ids(registry)
     /\ \E k \in 1..Len(hist[j].added) :
           /\ PathLen(hist[j].added[k]) = SPLIT_DEPTH
           /\ hist[j].added[k] \in Ids(registry)

\* C10: in every reachable state the bounds of a registered sub-entity are a
\* function of its identifier alone: insetBounds, with the margin of its
\* depth, of the un-inset quadrant cell that its path selects below the
\* gap-free tile cell, whether a first split or a re-split created it.
C10_BoundsFromId ==
  \A e \in registry :
     PathLen(e.id) >= 1 =>
       e.b = insetBounds(CellOfId(e.id), gapForDepth(PathLen(e.id) - 1))

\* entities of a first split and of the re-split of one of its sub-tiles are
\* registered side by side, at depths where the margin still shrinks
C10_Witness ==
  /\ CalledTwice
  /\ PrevCall.kind = "base" /\ LastCall.kind = "sub" /\ LastCall.depth = 1
  /\ \E e \in registry : e.id = LastCall.added[1] /\ PathLen(e.id) = 2
  /\ \E e \in registry : e.id = PrevCall.added[1] /\ PathLen(e.id) = 1

\* the tile of a call's point and the point's quadrant path down to n levels
TileOfCall(h) == latLonToTile(h.lat, h.lon, gridConfig)

RECURSIVE PointPath(_, _, _, _)
PointPath(lat, lon, bounds, n) ==
  IF n = 0 THEN <<>>
  ELSE LET q == quadrantAt(lat, lon, bounds)
       IN <<q>> \o PointPath(lat, lon, quadrantBounds(bounds, q), n - 1)

PathOfCall(h, n) ==
  LET t == TileOfCall(h)
  IN PointPath(h.lat, h.lon,
               tileBounds(t.row, t.col, gridConfig, [num |-> 0, den |-> 1]), n)

\* the call's point has no entity on its way down: neither its tile nor any
\* sub-tile on its quadrant path is registered
InHole(reg, h) ==
  LET baseId == tileIdToString(TileOfCall(h))
      path == PathOfCall(h, SPLIT_DEPTH)
      ids == Ids(reg)
  IN /\ baseId \notin ids
     /\ \A n \in 1..SPLIT_DEPTH : PathId(baseId, SubSeq(path, 1, n)) \notin ids

\* the margin of an entity in thousandths of the edge of its cell
MarginPerMille(e) ==
  LET cell == CellOfId(e.id)
      w == cell.east - cell.west
  IN ((w - (e.b.east - e.b.west)) * 1000) \div w

AddedSet(h) == {h.added[i] : i \in 1..Len(h.added)}

\* the last call was at a point of the depth-1 hole the call before it made
\* by splitting a tile
InDepth1Hole ==
  /\ CalledTwice
  /\ PrevCall.kind = "base"
  /\ TileOfCall(LastCall) = TileOfCall(PrevCall)
  /\ PathOfCall(LastCall, 1) = PathOfCall(PrevCall, 1)

\* C5 as stated: a call at a point inside a never-split tile removes the
\* tile's entity and creates exactly 3 new entities, all at depth 1; a
\* following call at a point still inside that depth-1 hole creates exactly 3
\* further entities at depth 2, with a strictly smaller margin fraction.
C5_Original ==
  /\ (Called /\ LastCall.kind = "base") =>
        /\ LastCall.removed = {LastCall.target}
        /\ Len(LastCall.added) = 3
        /\ \A id \in AddedSet(LastCall) : PathLen(id) = 1
  /\ InDepth1Hole =>
        /\ Len(LastCall.added) = 3
        /\ \A id \in AddedSet(LastCall) : PathLen(id) = 2
        /\ \A e1, e2 \in registry :
              (e1.id \in AddedSet(PrevCall) /\ e2.id \in AddedSet(LastCall))
                 => MarginPerMille(e2) < MarginPerMille(e1)

\* C5 amended: a call at a point inside a never-split tile removes the tile's
\* entity and creates exactly 3 new entities at every depth 1..SPLIT_DEPTH
\* (at each depth the fourth quadrant is the hole), the depth-2 ones with a
\* strictly smaller margin fraction than the depth-1 ones; a following call
\* at a point still inside that depth-1 hole creates no entity at depth 1 or
\* 2: it re-splits the visible sub-tile of depth >= 2 that contains the point,
\* adding only entities deeper than it, or changes nothing in the final hole.
C5_FirstSplitDrillsToFullDepth ==
  /\ (Called /\ LastCall.kind = "base") =>
        LET A == AddedSet(LastCall)
        IN /\ LastCall.removed = {LastCall.target}
           /\ LastCall.target \in Ids(regBefore) \ Ids(registry)
           /\ PathLen(LastCall.target) = 0
           /\ Len(LastCall.added) = 3 * SPLIT_DEPTH
           /\ \A n \in 1..SPLIT_DEPTH :
                 Cardinality({id \in A : PathLen(id) = n}) = 3
           /\ \A id \in A : StartsWith(id, LastCall.target \o <<"_">>)
           /\ Ids(registry) = (Ids(regBefore) \ {LastCall.target}) \cup A
           /\ \A e1, e2 \in {e \in registry : e.id \in A /\ PathLen(e.id) <= 2} :
                 (PathLen(e1.id) = 1 /\ PathLen(e2.id) = 2)
                    => MarginPerMille(e2) < MarginPerMille(e1)
  /\ InDepth1Hole =>
        /\ LastCall.kind \in {"sub", "hole"}
        /\ LastCall.kind = "sub" => LastCall.depth >= 2
        /\ LastCall.kind = "hole" => registry = regBefore
        /\ \A id \in AddedSet(LastCall) : PathLen(id) > Max(2, LastCall.depth)

\* a tile was split and the next call re-split a sub-tile of its depth-1 hole
C5_Witness ==
  /\ InDepth1Hole
  /\ LastCall.kind = "sub"
  /\ Len(LastCall.added) > 0

\* C6 as stated: for two points p1, p2 inside the same unsplit tile, the call
\* at p1 followed by the call at p2 leaves the registry the call at p1 left.
C6_Original ==
  (/\ CalledTwice
   /\ PrevCall.kind = "base"
   /\ TileOfCall(LastCall) = TileOfCall(PrevCall)) => registry = regBefore

\* C6 amended: for two points p1, p2 inside the same unsplit tile, the call at
\* p1 followed by the call at p2 leaves the registry the call at p1 left
\* exactly when p2 lies in the final hole of p1 (the two points have the same
\* quadrant path down to SPLIT_DEPTH); otherwise the call at p2 re-splits the
\* visible sub-tile that contains p2.
C6_SameNetSplitIffSameHole ==
  (/\ CalledTwice
   /\ PrevCall.kind = "base"
   /\ TileOfCall(LastCall) = TileOfCall(PrevCall)) =>
     /\ (registry = regBefore) <=>
           (PathOfCall(LastCall, SPLIT_DEPTH) = PathOfCall(PrevCall, SPLIT_DEPTH))
     /\ registry # regBefore => LastCall.kind = "sub"

\* two calls at different points of the final hole of the first one
C6_Witness ==
  /\ CalledTwice
  /\ PrevCall.kind = "base"
  /\ TileOfCall(LastCall) = TileOfCall(PrevCall)
  /\ <<LastCall.lat, LastCall.lon>> # <<PrevCall.lat, PrevCall.lon>>
  /\ PathOfCall(LastCall, SPLIT_DEPTH) = PathOfCall(PrevCall, SPLIT_DEPTH)
  /\ registry = regBefore

C9_ClickAgainRestores ==
  (/\ CalledTwice
   /\ <<LastCall.lat, LastCall.lon>> = <<PrevCall.lat, PrevCall.lon>>
   /\ PrevCall.kind \in {"base", "sub"}) => PrevCall.target \in Ids(registry)

\* what the code does instead: an identifier that a call has removed is in
\* no later registry
C9_RemovedStaysRemoved ==
  \A i \in 1..Len(hist) : hist[i].removed \cap Ids(registry) = {}

\* a <= b and a = b for fractions [num, den] with positive denominators
FracLeq(a, b) == a.num * b.den <= b.num * a.den
FracEq(a, b) == a.num * b.den = b.num * a.den

\* max(0.01, TILE_GAP * 0.5^(n - 1)), the margin fraction of path length n
MarginOfLength(n) ==
  LET halved == [num |-> TILE_GAP.num, den |-> TILE_GAP.den * Pow2(n - 1)]
  IN IF FracLeq(halved, MIN_GAP) THEN MIN_GAP ELSE halved

\* the margin of an entity measured on its rectangle: the part of the edge of
\* its cell that the rectangle leaves free, west-east and south-north
MeasuredMargin(e) ==
  LET cell == CellOfId(e.id)
      w == cell.east - cell.west
      h == cell.north - cell.south
  IN [lon |-> [num |-> w - (e.b.east - e.b.west), den |-> w],
      lat |-> [num |-> h - (e.b.north - e.b.south), den |-> h]]

SubEntities == {e \in registry : PathLen(e.id) >= 1}

\* C11: the margin fraction of a registered entity with a quadrant path of
\* length L >= 1 is max(0.01, TILE_GAP * 0.5^(L-1)), whether a first split or
\* a re-split created it; the margin halves per level down to the floor, is
\* non-increasing in depth and never falls below 0.01.
C11_MarginOfDepth ==
  /\ \A e \in SubEntities :
        LET m == MeasuredMargin(e)
            g == MarginOfLength(PathLen(e.id))
        IN /\ FracEq(m.lon, g) /\ FracEq(m.lat, g)
           /\ FracLeq(MIN_GAP, m.lon)
           /\ FracLeq(m.lon, TILE_GAP)
  /\ \A n \in 1..(SPLIT_DEPTH - 1) :
        /\ FracLeq(MarginOfLength(n + 1), MarginOfLength(n))
        /\ \/ MarginOfLength(n + 1) = MIN_GAP
           \/ 2 * MarginOfLength(n + 1).num * MarginOfLength(n).den
                 = MarginOfLength(n).num * MarginOfLength(n + 1).den

\* entities of a first split and of a re-split are registered at a depth where
\* the margin is above the floor and at a depth where it is the floor
C11_Witness ==
  \E i, j \in 1..Len(hist) :
     /\ hist[i].kind = "base" /\ hist[j].kind = "sub" /\ hist[j].depth = 1
     /\ \E a \in AddedSet(hist[i]) \cap Ids(registry) : PathLen(a) = 1
     /\ \E a \in AddedSet(hist[i]) \cap Ids(registry) : PathLen(a) = SPLIT_DEPTH
     /\ \E a \in AddedSet(hist[j]) \cap Ids(registry) : PathLen(a) = 2
     /\ \E a \in AddedSet(hist[j]) \cap Ids(registry) : PathLen(a) = SPLIT_DEPTH


\* ------------------------------------------------------------------- C14
\* a click whose pick gave no ray, or no position on the globe
MissedPick == {"noRay", "noGlobe"}

\* C14: a click whose screen-to-globe pick yields no position does not invoke
\* the controller (no call is recorded, no fault raised) and leaves the
\* registry as it was.
C14_MissedClickChangesNothing ==
  [][lastPick' \in MissedPick =>
       /\ registry' = registry
       /\ hist' = hist
       /\ threw' = threw]_vars

\* a click that found no position on the globe, after a sub-tile was re-split
C14_Witness ==
  /\ lastPick = "noGlobe"
  /\ Called
  /\ LastCall.kind = "sub"


\* ------------------------------------------------------------------- C12
\* C12: once stopFollowing has run, follow mode makes no call of
\* removeOrSplitTileAt until startFollowing runs again, whatever the order of
\* stopFollowing, the pending position callback, the end of the flight and
\* the frames.
C12_NoCallAfterStop ==
  \A i \in 1..Len(followLog) : ~followLog[i].afterStop

\* ------------------------------------------------------------------- C13
\* C13: while follow mode stays on, two consecutive calls of
\* removeOrSplitTileAt made by follow mode are at least
\* FOLLOW_REMOVE_THROTTLE_MS apart.
C13_FollowCallsThrottled ==
  \A i \in 1..(Len(followLog) - 1) :
     (/\ followLog[i].following /\ followLog[i + 1].following
      /\ followLog[i].session = followLog[i + 1].session)
       => followLog[i + 1].t - followLog[i].t >= FOLLOW_REMOVE_THROTTLE_MS


\* ----------------------------------------------------------- C15 .. C20
\* the stages of a probe at which field f has been computed
Located == probe.op \in {"located", "quadrant", "quadrants"}
HasQuadrant == probe.op \in {"quadrant", "quadrants"}
HasQuadrants == probe.op = "quadrants"

\* the point lies strictly inside rectangle b
StrictlyInside(pt, b) ==
  /\ FLess(b.south, pt.lat) /\ FLess(pt.lat, b.north)
  /\ FLess(b.west, pt.lon) /\ FLess(pt.lon, b.east)

\* C15: for every valid (row, col) of a grid and every point strictly inside
\* tileBounds(row, col, config, 0), its centre among them, latLonToTile
\* returns (row, col).
C15_LatLonToTileInvertsTileBounds ==
  (Located /\ probe.shape = "tile" /\ StrictlyInside(probe.pt, probe.tile))
    => probe.id = [row |-> probe.row, col |-> probe.col]


\* clamp(v, lo, hi)
Clamp(v, lo, hi) == IF v < lo THEN lo ELSE IF v > hi THEN hi ELSE v

\* floor((x + offset) / (total / count)) clamped to 0 .. count - 1
ClampedIndex(x, offset, total, count) ==
  Clamp(FFloor(FDiv(FAdd(x, offset), FDiv(total, FInt(count)))), 0, count - 1)

\* the edge is shared: tile (row - 1) ends to the north where tile row starts,
\* and likewise for the columns
SharesSouthEdge ==
  /\ probe.row >= 1
  /\ tileBoundsF(probe.row - 1, probe.col, probe.config, FZero).north
       = probe.tile.south
SharesWestEdge ==
  /\ probe.col >= 1
  /\ tileBoundsF(probe.row, probe.col - 1, probe.config, FZero).east
       = probe.tile.west

\* C16: for lat in [-90, 90] and lon in [-180, 180] latLonToTile returns
\* row = clamp(floor((lat + 90) / latStep), 0, latCount - 1) and
\* col = clamp(floor((lon + 180) / lonStep), 0, lonCount - 1), a valid TileId;
\* lat = 90 gives the last row and lon = 180 the last column; a point on the
\* boundary shared by two tiles maps to the north / east one; with 36 x 72,
\* (10, 10) maps to tile_20_38.
C16_LatLonToTileClamps ==
  (Located /\ probe.shape = "tile") =>
    /\ probe.id.row = ClampedIndex(probe.pt.lat, F90, F180,
                                   probe.config.latCount)
    /\ probe.id.col = ClampedIndex(probe.pt.lon, F180, F360,
                                   probe.config.lonCount)
    /\ probe.id.row \in 0..(probe.config.latCount - 1)
    /\ probe.id.col \in 0..(probe.config.lonCount - 1)
    /\ probe.pt.lat = F90 => probe.id.row = probe.config.latCount - 1
    /\ probe.pt.lon = F180 => probe.id.col = probe.config.lonCount - 1
    /\ (probe.place = "southWest" /\ SharesSouthEdge)
         => probe.id.row = probe.row
    /\ (probe.place = "southWest" /\ SharesWestEdge)
         => probe.id.col = probe.col
    /\ (/\ probe.config = DEFAULT_GRID_CONFIG
        /\ probe.pt = [lat |-> FInt(10), lon |-> FInt(10)])
         => tileIdToString(probe.id)
              = <<"t", "i", "l", "e", "_", "2", "0", "_", "3", "8">>


\* tileBounds has been applied to the tile of the probe
HasTile == probe.op # "input" /\ probe.shape = "tile"

\* C17: for every grid the rectangles tileBounds(r, c, config, 0) partition
\* [-90, 90] x [-180, 180]: neighbours share the very same boundary coordinate,
\* no tile is empty or reversed, and the outer edges are -90, 90, -180, 180.
C17_TilesPartitionTheGlobe ==
  HasTile =>
    LET cfg == probe.config
        t == probe.tile
    IN /\ FLess(t.south, t.north)
       /\ FLess(t.west, t.east)
       /\ probe.row + 1 < cfg.latCount =>
            tileBoundsF(probe.row + 1, probe.col, cfg, FZero).south = t.north
       /\ probe.col + 1 < cfg.lonCount =>
            tileBoundsF(probe.row, probe.col + 1, cfg, FZero).west = t.east
       /\ probe.row = 0 => t.south = FNeg(F90)
       /\ probe.col = 0 => t.west = FNeg(F180)
       /\ probe.row = cfg.latCount - 1 => t.north = F90
       /\ probe.col = cfg.lonCount - 1 => t.east = F180


\* the midlines of the rectangle of the probe
MidLat == FDiv(FAdd(probe.b.south, probe.b.north), F2)
MidLon == FDiv(FAdd(probe.b.west, probe.b.east), F2)

\* the rectangle (edges included) holds the point
Holds(b, pt) ==
  /\ FLeq(b.south, pt.lat) /\ FLeq(pt.lat, b.north)
  /\ FLeq(b.west, pt.lon) /\ FLeq(pt.lon, b.east)

\* quadrantBounds(b, q) of the probe: SW, SE, NW, NE
QuadrantOf(q) == probe.qs[q + 1]

\* C18: for a rectangle with west < east and south < north the four
\* rectangles quadrantBounds(bounds, q) partition it: together they reach its
\* four edges, and they meet each other along the two midlines only, which lie
\* within the rectangle.
C18_QuadrantsPartition ==
  (HasQuadrants /\ FLess(probe.b.west, probe.b.east)
                /\ FLess(probe.b.south, probe.b.north)) =>
    LET b == probe.b
        sw == QuadrantOf(0)
        se == QuadrantOf(1)
        nw == QuadrantOf(2)
        ne == QuadrantOf(3)
    IN /\ sw.west = b.west /\ nw.west = b.west
       /\ se.east = b.east /\ ne.east = b.east
       /\ sw.south = b.south /\ se.south = b.south
       /\ nw.north = b.north /\ ne.north = b.north
       /\ sw.east = se.west /\ nw.east = ne.west /\ sw.east = nw.east
       /\ sw.north = nw.south /\ se.north = ne.south /\ sw.north = se.north
       /\ FLeq(b.west, sw.east) /\ FLeq(sw.east, b.east)
       /\ FLeq(b.south, sw.north) /\ FLeq(sw.north, b.north)

\* the quadrants of a tile were computed, and those of a sliver one double high
\* whose horizontal midline falls on one of its edges
C18_Witness ==
  /\ HasQuadrants
  /\ probe.shape = "sliver"
  /\ QuadrantOf(0).north \in {probe.b.south, probe.b.north}
  /\ FLess(probe.b.west, QuadrantOf(0).east)
  /\ FLess(QuadrantOf(0).east, probe.b.east)

\* C19: for a rectangle and a point inside it or on its boundary, the point
\* lies within (or on the boundary of) quadrantBounds(bounds, quadrantAt(lat,
\* lon, bounds)).
C19_PointInItsQuadrant ==
  (HasQuadrants /\ Holds(probe.b, probe.pt))
    => Holds(QuadrantOf(probe.q), probe.pt)

\* a corner point that only one quadrant holds, in a tile of the grid
C19_Witness ==
  /\ HasQuadrants
  /\ probe.shape = "tile"
  /\ probe.place = "northWest"
  /\ probe.q = 2
  /\ Holds(probe.b, probe.pt)
  /\ ~Holds(QuadrantOf(1), probe.pt)

\* C20: quadrantAt returns (northBit << 1) | eastBit, northBit being 1 iff
\* lat >= the midline latitude and eastBit 1 iff lon >= the midline longitude:
\* a point gets one quadrant, and a point on a midline gets the north
\* (respectively east) one.
C20_QuadrantAtBits ==
  HasQuadrant =>
    LET northBit == IF FCmp(probe.pt.lat, MidLat) >= 0 THEN 1 ELSE 0
        eastBit == IF FCmp(probe.pt.lon, MidLon) >= 0 THEN 1 ELSE 0
    IN /\ probe.q = BitOr(ShiftLeft(northBit, 1), eastBit)
       /\ probe.q \in 0..3
       /\ probe.q \div 2 = northBit
       /\ probe.q % 2 = eastBit
       /\ probe.pt.lat = MidLat => probe.q \in {2, 3}
       /\ probe.pt.lon = MidLon => probe.q \in {1, 3}

\* the centre of a tile, on both midlines, was given quadrant 3
C20_Witness ==
  /\ HasQuadrant
  /\ probe.shape = "tile"
  /\ probe.place = "center"
  /\ probe.pt.lat = MidLat
  /\ probe.pt.lon = MidLon
  /\ probe.q = 3


\* a TileId was printed and its string parsed
RoundTripped == probe.op = "parsed" /\ probe.from = "tile"

\* exactly tile_<digits>_<digits>: three pieces between the underscores, the
\* first "tile", the other two non-empty runs of digits
IsBaseForm(str) ==
  LET t == SplitUnderscore(str, 1, <<>>)
  IN /\ Len(t) = 3
     /\ t[1] = <<"t", "i", "l", "e">>
     /\ \A k \in 2..3 : Len(t[k]) >= 1 /\ \A j \in 1..Len(t[k]) : IsDigit(t[k][j])

\* parseTileId returns null for every string that is not of the base form
NullUnlessBaseForm ==
  (probe.op = "parsed" /\ ~IsBaseForm(probe.str)) => probe.parsed = Null

\* the integer double v is below 10^MAX_PLAIN_DIGITS
BelowTenTo21(v) == FLess(v, TenTo21)

\* C21 as stated: parseTileId(tileIdToString(t)) = t for every TileId t with
\* non-negative integer row and col, and parseTileId returns null for every
\* string that is not exactly tile_<digits>_<digits>.
C21_ParseInvertsToString ==
  /\ RoundTripped => probe.parsed = Parsed(probe.tile.row, probe.tile.col)
  /\ NullUnlessBaseForm

\* C21, amended: parseTileId(tileIdToString(t)) = t for every TileId t whose
\* row and col are non-negative integers below 10^21, and parseTileId returns
\* null for every string that is not exactly tile_<digits>_<digits>.
C21_ParseInvertsToStringBelowTenTo21 ==
  /\ (RoundTripped /\ BelowTenTo21(probe.tile.row) /\ BelowTenTo21(probe.tile.col))
       => probe.parsed = Parsed(probe.tile.row, probe.tile.col)
  /\ NullUnlessBaseForm

\* the TileId (2^53, 35) came back from its string
C21_Witness ==
  /\ RoundTripped
  /\ probe.tile.row = [neg |-> FALSE, mag |-> <<1>>, exp |-> MANTISSA_BITS]
  /\ probe.tile.col = FInt(LON_COUNT - 1)
  /\ probe.parsed = Parsed(probe.tile.row, probe.tile.col)


\* a function of tileGrid.ts is applied under the default grid configuration
UnderDefaultConfig == probe.config = DEFAULT_GRID_CONFIG

InCell(b, lat, lon) ==
  /\ b.south <= lat
  /\ (lat < b.north \/ (lat = b.north /\ b.north = 90 * DEG))
  /\ b.west <= lon
  /\ (lon < b.east \/ (lon = b.east /\ b.east = 180 * DEG))

\* a point applied so far lies in the cell
Occupied(b) == \E i \in 1..Len(hist) : InCell(b, hist[i].lat, hist[i].lon)

RawTile(r, c) == tileBounds(r, c, gridConfig, [num |-> 0, den |-> 1])

\* the tiles no applied point lies in
FreeTileIds ==
  {tileIdToString([row |-> rc[1], col |-> rc[2]]) :
     rc \in {x \in (0..(gridConfig.latCount - 1)) \X (0..(gridConfig.lonCount - 1)) :
               ~Occupied(RawTile(x[1], x[2]))}}

\* the children of every cell on the quadrant path of an applied point: all
\* the sub-tile identifiers whose parent's cell may hold an applied point
ChildrenOnPaths ==
  UNION {{ChildId(tileIdToString(TileOfCall(hist[i])),
                  SubSeq(PathOfCall(hist[i], SPLIT_DEPTH), 1, n - 1), q) :
            n \in 1..SPLIT_DEPTH, q \in 0..3} : i \in 1..Len(hist)}

\* the sub-tiles no applied point lies in, with one in their parent's cell
FreeChildIds ==
  {id \in ChildrenOnPaths :
     /\ Occupied(CellOfId(ParentId(id)))
     /\ ~Occupied(CellOfId(id))}

\* an applied point lies in the parent's cell of every sub-tile that is not
\* among ChildrenOnPaths: the quadrant path of a point names the cells it is in
PathsNameCells ==
  \A i \in 1..Len(hist) : \A n \in 0..SPLIT_DEPTH :
    LET t == TileOfCall(hist[i])
        cell == CellOfPath(RawTile(t.row, t.col),
                           SubSeq(PathOfCall(hist[i], SPLIT_DEPTH), 1, n))
    IN InCell(cell, hist[i].lat, hist[i].lon)

ApplyPoint(reg, p) == Entities(removeOrSplitTileAt(reg, p.lat, p.lon))

RECURSIVE Replay(_, _)
Replay(reg, pts) ==
  IF pts = <<>> THEN reg ELSE Replay(ApplyPoint(reg, Head(pts)), Tail(pts))

PointOf(h) == [lat |-> h.lat, lon |-> h.lon]

\* the points applied before the last two calls
EarlierPoints == [i \in 1..(Len(hist) - 2) |-> PointOf(hist[i])]

\* the registry the last two calls would have left in the other order
SwappedRegistry ==
  Replay(InitialRegistry,
         EarlierPoints \o <<PointOf(LastCall), PointOf(PrevCall)>>)

\* C24: removeOrSplitTileAt calls commute: from any reachable registry, the
\* calls at p1 then p2 leave the same identifiers and bounds as the calls at
\* p2 then p1.
C24_CallsCommute == CalledTwice => registry = SwappedRegistry

\* two calls at different points of one tile, the second re-splitting a
\* sub-tile the first made, after an earlier call elsewhere
C24_Witness ==
  /\ Len(hist) = MaxCalls
  /\ PrevCall.kind = "base"
  /\ LastCall.kind = "sub"
  /\ TileOfCall(PrevCall) = TileOfCall(LastCall)
  /\ TileOfCall(hist[1]) # TileOfCall(LastCall)
  /\ registry = SwappedRegistry


\* the last call was made at the point of the call before it
SamePointAgain ==
  /\ CalledTwice
  /\ PointOf(LastCall) = PointOf(PrevCall)

Uncovered(reg, p) == InHole(reg, p)

InSubtreeOf(id, target) ==
  LET a == ReadId(id)
      t == ReadId(target)
  IN /\ a.row = t.row /\ a.col = t.col
     /\ Len(a.path) >= Len(t.path)
     /\ SubSeq(a.path, 1, Len(t.path)) = t.path

\* the last call removed an entity, LastCall.target
Split == Called /\ LastCall.kind \in {"base", "sub"}

\* C27: a call removeOrSplitTileAt at a point of tile (r, c) leaves unchanged
\* every registered entity outside the target's sub-tree: entities of other
\* tiles (tile_1_20 when the call is in tile_1_2) and entities of the same
\* tile outside the re-split leaf are neither removed nor modified, and what
\* the call adds lies in the target's sub-tree.
C27_FrameOfCall ==
  /\ Split =>
       /\ \A e \in regBefore : ~InSubtreeOf(e.id, LastCall.target) => e \in registry
       /\ \A id \in LastCall.removed : InSubtreeOf(id, LastCall.target)
       /\ \A id \in AddedSet(LastCall) : InSubtreeOf(id, LastCall.target)
       /\ ReadId(LastCall.target).row = TileOfCall(LastCall).row
       /\ ReadId(LastCall.target).col = TileOfCall(LastCall).col
  /\ (Called /\ ~Split) => registry = regBefore

\* tile_1_20 was split, then tile_1_2, then a depth-1 sub-tile of tile_1_2 was
\* re-split: the sub-tiles of tile_1_20 and the other sub-tiles of tile_1_2
\* are still there
C27_Witness ==
  /\ Len(hist) = MaxCalls
  /\ TileOfCall(hist[1]) = [row |-> 1, col |-> 20]
  /\ TileOfCall(PrevCall) = [row |-> 1, col |-> 2]
  /\ PrevCall.kind = "base"
  /\ LastCall.kind = "sub"
  /\ LastCall.depth = 1
  /\ \E e \in regBefore :
        /\ ReadId(e.id).col = 20 /\ ReadId(e.id).row = 1
        /\ StartsWith(e.id, SubSeq(LastCall.target, 1, Len(LastCall.target) - 2))
        /\ e \in registry
  /\ \E e \in regBefore :
        /\ InSubtreeOf(e.id, tileIdToString([row |-> 1, col |-> 2]))
        /\ ~InSubtreeOf(e.id, LastCall.target)
        /\ e \in registry


\* C28: follow-mode resources are held only while follow mode is on: whenever
\* followLocation is false no geolocation watch is active and onFollowTick is
\* not registered on preRender, and at most one watch is active at any time
\* (followWatchId is non-null exactly when a watch is active).
C28_ResourcesOnlyWhileFollowing ==
  /\ ~followLocation => (watches = {} /\ listeners = 0)
  /\ Cardinality(watches) <= 1
  /\ (followWatchId # NoWatch) <=> (watches # {})
  /\ watches \subseteq {followWatchId}

\* a flyTo made by something else than follow mode's own start flight
ForeignFlyTo == cameraFlyTo \/ viewerFlyTo

\* C29: whenever viewer.flyTo or viewer.camera.flyTo is invoked while follow
\* mode is on, by anything other than follow mode's own start-of-follow
\* flight, followLocation is false when the call returns; follow mode's own
\* start flight never stops it.
C29_ForeignFlyToStopsFollow ==
  [][/\ (followLocation /\ ForeignFlyTo) => ~followLocation'
     /\ (followLocation /\ \E p \in GeoPoints : PositionSuccess(p))
           => followLocation']_vars

====
